---- MODULE Spec2Model ----
(***************************************************************************)
(* Model of urgym/base/utilities.py: the Camera class (pixel + depth to    *)
(* world unprojection, single point and batched), the quaternion helpers,  *)
(* geometric_distance_reward and the z-alignment functions.                *)
(*                                                                         *)
(* Numbers are exact rationals <<n, d>> (d > 0, lowest terms).  Lengths of *)
(* the reward function are measured in units of 1e-10, the clamp constant  *)
(* of the source, so that the clamp is the rational 1.  Angles are whole   *)
(* quarter turns, whose sines and cosines are exact.  numpy arrays live in *)
(* a heap of buffers, so that an in-place operation on a view is visible   *)
(* through every other view of the same buffer.                            *)
(***************************************************************************)
EXTENDS Integers, Sequences, FiniteSets, TLC

VARIABLES cam, heap, call, res

vars == <<cam, heap, call, res>>

(***************************************************************************)
(* Exact rational arithmetic.                                              *)
(***************************************************************************)
Abs(n) == IF n < 0 THEN -n ELSE n

RECURSIVE Gcd(_, _)
Gcd(a, b) == IF b = 0 THEN a ELSE Gcd(b, a % b)

\* n/d in lowest terms with a positive denominator (d # 0)
Rat(n, d) ==
    LET g == Gcd(Abs(n), Abs(d))
        s == IF d < 0 THEN -1 ELSE 1
    IN  <<(s * n) \div g, (s * d) \div g>>

Int2Rat(n) == <<n, 1>>
Zero == Int2Rat(0)
One == Int2Rat(1)

RAdd(a, b) == Rat(a[1] * b[2] + b[1] * a[2], a[2] * b[2])
RSub(a, b) == Rat(a[1] * b[2] - b[1] * a[2], a[2] * b[2])
RMul(a, b) == Rat(a[1] * b[1], a[2] * b[2])
RDiv(a, b) == Rat(a[1] * b[2], a[2] * b[1])
RNeg(a) == <<-a[1], a[2]>>
RLt(a, b) == a[1] * b[2] < b[1] * a[2]
RLe(a, b) == a[1] * b[2] <= b[1] * a[2]

(***************************************************************************)
(* Outcome of a call: a returned value, or a raised exception.             *)
(***************************************************************************)
ZeroDivisionError == "ZeroDivisionError"
TypeError == "TypeError"
LinAlgError == "LinAlgError"
Errors == {ZeroDivisionError, TypeError, LinAlgError}

Return(v) == [raised |-> "no", value |-> v]
Raise(e) == [raised |-> e, value |-> <<>>]
\* the call has been made and has not returned yet
Pending == [raised |-> "pending", value |-> <<>>]
Returned(r) == r.raised = "no"
\* what a call returns that returns nothing
None == "None"

\* builtin max(a, b): b only when it is strictly larger than a
PyMax(a, b) == IF RLt(a, b) THEN b ELSE a

\* np.tanh is kept symbolic: [tanh |-> x] stands for tanh(x), an odd, strictly
\* increasing function with tanh(0) = 0 and values in (-1, 1)
Tanh(x) == [tanh |-> x]
\* -tanh(x) = tanh(-x)
NegTanh(t) == [tanh |-> RNeg(t.tanh)]
\* sign of a tanh value: that of its argument
TanhSign(t) == IF t.tanh[1] > 0 THEN 1 ELSE IF t.tanh[1] < 0 THEN -1 ELSE 0
\* order of two tanh values: that of their arguments
TanhLe(s, t) == RLe(s.tanh, t.tanh)

(***************************************************************************)
(* geometric_distance_reward (utilities.py 192-207).                       *)
(***************************************************************************)
\* the clamp constant 1e-10, the unit of length of the model
Eps == One

\* line 204: value = max(value, 1e-10)
ClampValueNone(value) == value
ClampValue(value) == PyMax(value, Eps)

\* line 205: the numerator of factor1
Factor1NumMax(value, threshold_sign, threshold_max) == RSub(value, threshold_max)
Factor1Num(value, threshold_sign, threshold_max) == RSub(value, threshold_sign)

\* line 206: factor2 = max(threshold_max - value, 1e-10)
Factor2NoClamp(value, threshold_max) == RSub(threshold_max, value)
Factor2(value, threshold_max) == PyMax(RSub(threshold_max, value), Eps)

\* a float division by zero raises ZeroDivisionError (lines 205 and 207)
geometric_distance_reward(value, threshold_sign, threshold_max) ==
    LET v == ClampValue(value)
        factor2 == Factor2(v, threshold_max)
    IN  IF v[1] = 0 \/ factor2[1] = 0 THEN Raise(ZeroDivisionError)
        ELSE LET factor1 == RDiv(Factor1Num(v, threshold_sign, threshold_max), v)
             IN  Return(NegTanh(Tanh(RDiv(factor1, factor2))))

\* the inputs of the model: distances k/GridDen, thresholds k/GridDen
GridDen == 2
MaxGrid == 6
Distances == {Rat(n, GridDen) : n \in 0..MaxGrid}
Thresholds == {Rat(n, GridDen) : n \in -1..MaxGrid}

\* no Camera instance exists
NoCamera == [constructed |-> FALSE]
\* the numpy buffers: the camera's inverse matrix, the caller's depth image,
\* and the arrays z and position that the unprojections allocate
NoBuffer == <<>>
Buffers == {"tran_pix_world", "depth", "z", "position"}
EmptyHeap == [b \in Buffers |-> NoBuffer]

\* a caller about to call geometric_distance_reward with some inputs
InitReward ==
    /\ cam = NoCamera
    /\ heap = EmptyHeap
    /\ call \in [op : {"geometric_distance_reward"},
                 args : Distances \X Thresholds \X Thresholds]
    /\ res = Pending

GeometricDistanceReward ==
    /\ call.op = "geometric_distance_reward"
    /\ res = Pending
    /\ res' = geometric_distance_reward(call.args[1], call.args[2], call.args[3])
    /\ UNCHANGED <<cam, heap, call>>

NextReward == GeometricDistanceReward

SpecReward == InitReward /\ [][NextReward]_vars

\* geometric_distance_reward has returned or raised
RewardDone == call.op = "geometric_distance_reward" /\ res # Pending
RValue == call.args[1]
RSign == call.args[2]
RMax == call.args[3]

RewardZero == Tanh(Zero)

C5_NoDivisionByZero ==
    RewardDone =>
        /\ Returned(res)
        /\ RLe(Eps, ClampValue(RValue))
        /\ RLe(Eps, Factor2(ClampValue(RValue), RMax))

\* value == 0 and value == threshold_max at once: both clamps act
C5_Witness ==
    /\ RewardDone /\ RValue = Zero /\ RMax = Zero
    /\ Returned(res)
    /\ ClampValue(RValue) = Eps /\ Factor2(ClampValue(RValue), RMax) = Eps

(***************************************************************************)
(* Quaternion helpers (utilities.py 151-190).  A quaternion is the tuple   *)
(* <<x, y, z, w>>.                                                         *)
(***************************************************************************)
\* line 170 with the sign of the last term flipped
QuatXFlipped(x1, y1, z1, w1, x2, y2, z2, w2) == w1 * x2 + x1 * w2 + y1 * z2 + z1 * y2
\* line 170
QuatX(x1, y1, z1, w1, x2, y2, z2, w2) == w1 * x2 + x1 * w2 + y1 * z2 - z1 * y2

quaternion_multiply(quat1, quat2) ==
    LET x1 == quat1[1]
        y1 == quat1[2]
        z1 == quat1[3]
        w1 == quat1[4]
        x2 == quat2[1]
        y2 == quat2[2]
        z2 == quat2[3]
        w2 == quat2[4]
        w == w1 * w2 - x1 * x2 - y1 * y2 - z1 * z2
        x == QuatX(x1, y1, z1, w1, x2, y2, z2, w2)
        y == w1 * y2 + y1 * w2 + z1 * x2 - x1 * z2
        z == w1 * z2 + z1 * w2 + x1 * y2 - y1 * x2
    IN  <<x, y, z, w>>

\* A square root is kept exact as the surd c * sqrt(k), k squarefree:
\* [c |-> rational, k |-> integer]; zero is [c |-> 0, k |-> 1].
Surd(c, k) == IF c[1] = 0 THEN [c |-> Zero, k |-> 1] ELSE [c |-> c, k |-> k]
SurdOfRat(r) == Surd(r, 1)

\* the largest c in 1..n whose square divides n
RECURSIVE SquarePart(_, _)
SquarePart(n, c) ==
    IF c <= 1 THEN 1
    ELSE IF c * c <= n /\ n % (c * c) = 0 THEN c
    ELSE SquarePart(n, c - 1)

\* np.sqrt of a non-negative integer
Sqrt(n) ==
    LET c == SquarePart(n, n)
    IN  Surd(Int2Rat(IF n = 0 THEN 0 ELSE c), IF n = 0 THEN 1 ELSE n \div (c * c))

\* q / (c * sqrt(k)) = (q / (c * k)) * sqrt(k), for a nonzero surd
DivBySurd(q, s) == Surd(RDiv(Int2Rat(q), RMul(s.c, Int2Rat(s.k))), s.k)
\* the square of a surd, a rational
SurdSquare(s) == RMul(RMul(s.c, s.c), Int2Rat(s.k))

\* line 178 without the square root
QuatNormSquared(qx, qy, qz, qw) ==
    Surd(Int2Rat(qx * qx + qy * qy + qz * qz + qw * qw), 1)
\* line 178
QuatNorm(qx, qy, qz, qw) == Sqrt(qx * qx + qy * qy + qz * qz + qw * qw)

normalize_quaternion(qx, qy, qz, qw) ==
    LET norm == QuatNorm(qx, qy, qz, qw)
    IN  IF norm = SurdOfRat(Zero)
        THEN <<SurdOfRat(Zero), SurdOfRat(Zero), SurdOfRat(Zero), SurdOfRat(One)>>
        ELSE <<DivBySurd(qx, norm), DivBySurd(qy, norm),
               DivBySurd(qz, norm), DivBySurd(qw, norm)>>

\* the inputs of the model: integer components; the triples of the
\* associativity check are drawn from the quaternions of small weight
QMax == 1
QWeight == 1
Quats == (-QMax..QMax) \X (-QMax..QMax) \X (-QMax..QMax) \X (-QMax..QMax)
SmallQuats == {q \in Quats : Abs(q[1]) + Abs(q[2]) + Abs(q[3]) + Abs(q[4]) <= QWeight}

\* a caller about to normalize q, or to multiply a, b and c both ways round
InitQuat ==
    /\ cam = NoCamera
    /\ heap = EmptyHeap
    /\ \/ call \in [op : {"normalize_quaternion"}, args : Quats]
       \/ call \in [op : {"quaternion_multiply"},
                    args : SmallQuats \X SmallQuats \X SmallQuats]
    /\ res = Pending

NormalizeQuaternion ==
    /\ call.op = "normalize_quaternion"
    /\ res = Pending
    /\ res' = Return(normalize_quaternion(call.args[1], call.args[2],
                                          call.args[3], call.args[4]))
    /\ UNCHANGED <<cam, heap, call>>

\* the inner products: a*b, b*a and b*c
QuaternionMultiplyPair ==
    /\ call.op = "quaternion_multiply"
    /\ res = Pending
    /\ res' = [raised |-> "inner",
               value |-> [ab |-> quaternion_multiply(call.args[1], call.args[2]),
                          ba |-> quaternion_multiply(call.args[2], call.args[1]),
                          bc |-> quaternion_multiply(call.args[2], call.args[3])]]
    /\ UNCHANGED <<cam, heap, call>>

\* the outer products: (a*b)*c and a*(b*c)
QuaternionMultiplyTriple ==
    /\ call.op = "quaternion_multiply"
    /\ res.raised = "inner"
    /\ res' = Return([ab |-> res.value.ab,
                      ba |-> res.value.ba,
                      left |-> quaternion_multiply(res.value.ab, call.args[3]),
                      right |-> quaternion_multiply(call.args[1], res.value.bc)])
    /\ UNCHANGED <<cam, heap, call>>

NextQuat == NormalizeQuaternion \/ QuaternionMultiplyPair \/ QuaternionMultiplyTriple

SpecQuat == InitQuat /\ [][NextQuat]_vars

MultiplyDone == call.op = "quaternion_multiply" /\ Returned(res)
NormalizeDone == call.op = "normalize_quaternion" /\ Returned(res)

QuatI == <<1, 0, 0, 0>>
QuatJ == <<0, 1, 0, 0>>
QuatK == <<0, 0, 1, 0>>

\* C6: quaternion_multiply is the Hamilton product on (x, y, z, w), i*j = k,
\* j*k = i, k*i = j and i*i = -1, and it is associative: (a*b)*c equals
\* a*(b*c) for all a, b, c
C6_Associative ==
    MultiplyDone =>
        LET a == call.args[1]
            b == call.args[2]
        IN  /\ res.value.left = res.value.right
            /\ (a = QuatI /\ b = QuatJ) => res.value.ab = QuatK
            /\ (a = QuatJ /\ b = QuatK) => res.value.ab = QuatI
            /\ (a = QuatK /\ b = QuatI) => res.value.ab = QuatJ
            /\ (a = QuatI /\ b = QuatI) => res.value.ab = <<0, 0, 0, -1>>

\* C6: and it is not commutative: a pair with a*b # b*a exists
C6_Witness ==
    /\ MultiplyDone
    /\ res.value.ab # res.value.ba
    /\ res.value.left = res.value.right
    /\ res.value.left # <<0, 0, 0, 0>>

SumOfSquares(q) ==
    RAdd(RAdd(SurdSquare(q[1]), SurdSquare(q[2])), RAdd(SurdSquare(q[3]), SurdSquare(q[4])))

\* C7: normalize_quaternion(0, 0, 0, 0) is the identity (0, 0, 0, 1); any other
\* quaternion comes back as each component divided by the Euclidean norm: the
\* result has unit norm and is the input scaled by one positive factor
C7_Normalize ==
    NormalizeDone =>
        LET q == call.args
            r == res.value
            n2 == q[1] * q[1] + q[2] * q[2] + q[3] * q[3] + q[4] * q[4]
        IN  IF q = <<0, 0, 0, 0>>
            THEN r = <<SurdOfRat(Zero), SurdOfRat(Zero), SurdOfRat(Zero), SurdOfRat(One)>>
            ELSE /\ SumOfSquares(r) = One
                 /\ \A i \in 1..4 :
                        /\ RMul(SurdSquare(r[i]), Int2Rat(n2)) = Int2Rat(q[i] * q[i])
                        /\ (r[i].c[1] > 0) = (q[i] > 0)
                        /\ (r[i].c[1] < 0) = (q[i] < 0)

C7_Witness ==
    /\ NormalizeDone
    /\ call.args = <<1, -1, 0, 1>>
    /\ res.value[1] = Surd(Rat(1, 3), 3)
    /\ res.value[2] = Surd(Rat(-1, 3), 3)

(***************************************************************************)
(* z_alignment_distance and is_pointing_downwards (utilities.py 224-286).  *)
(* An angle is a whole number of quarter turns: k stands for k * pi / 2.   *)
(***************************************************************************)
\* np.cos and np.sin of k quarter turns
Cos(k) == LET m == k % 4 IN IF m = 0 THEN 1 ELSE IF m = 2 THEN -1 ELSE 0
Sin(k) == LET m == k % 4 IN IF m = 1 THEN 1 ELSE IF m = 3 THEN -1 ELSE 0

\* 3x3 matrices are tuples of rows; a @ b and a @ v
MatMul3(a, b) ==
    [i \in 1..3 |-> [j \in 1..3 |-> a[i][1] * b[1][j] + a[i][2] * b[2][j] + a[i][3] * b[3][j]]]
MatVec3(a, v) == [i \in 1..3 |-> a[i][1] * v[1] + a[i][2] * v[2] + a[i][3] * v[3]]
Dot3(u, v) == u[1] * v[1] + u[2] * v[2] + u[3] * v[3]
\* np.linalg.norm of a vector
Norm3(v) == Sqrt(Dot3(v, v))

\* lines 249-253, as a rotation about the z axis instead
RxAboutZ(roll) ==
    << <<Cos(roll), -Sin(roll), 0>>,
       <<Sin(roll), Cos(roll), 0>>,
       <<0, 0, 1>> >>
\* lines 249-253
Rx(roll) ==
    << <<1, 0, 0>>,
       <<0, Cos(roll), -Sin(roll)>>,
       <<0, Sin(roll), Cos(roll)>> >>
\* lines 255-259
Ry(pitch) ==
    << <<Cos(pitch), 0, Sin(pitch)>>,
       <<0, 1, 0>>,
       <<-Sin(pitch), 0, Cos(pitch)>> >>
\* lines 261-265
Rz(yaw) ==
    << <<Cos(yaw), -Sin(yaw), 0>>,
       <<Sin(yaw), Cos(yaw), 0>>,
       <<0, 0, 1>> >>

\* np.clip(x, -1.0, 1.0)
Clip(x) == IF RLt(x, Int2Rat(-1)) THEN Int2Rat(-1) ELSE IF RLt(One, x) THEN One ELSE x

\* np.arccos, in units of pi, of the cosines quarter turns produce
ArccosOverPi(c) ==
    IF c = One THEN Zero ELSE IF c = Zero THEN Rat(1, 2) ELSE One

\* the product of two surds with the same radicand 1, as a rational
Magnitudes(m1, m2) == RMul(m1.c, m2.c)

z_alignment_distance(roll, pitch, yaw) ==
    LET downward == <<0, 0, -1>>
        R == MatMul3(MatMul3(Rz(yaw), Ry(pitch)), Rx(roll))
        rotated_downward == MatVec3(R, downward)
        dot_product == Dot3(rotated_downward, downward)
        magnitude_rotated_downward == Norm3(rotated_downward)
        magnitude_downward == Norm3(downward)
        cos_theta == RDiv(Int2Rat(dot_product),
                          Magnitudes(magnitude_rotated_downward, magnitude_downward))
        \* theta / np.pi
        normalized_theta == ArccosOverPi(Clip(cos_theta))
    IN  normalized_theta

\* a Python call of z_alignment_distance with the positional arguments args:
\* the function takes exactly three
Call_z_alignment_distance(args) ==
    IF Len(args) # 3 THEN Raise(TypeError)
    ELSE Return(z_alignment_distance(args[1], args[2], args[3]))

\* lines 224-225
is_pointing_downwards(qx, qy, qz, qw, threshold) ==
    LET d == Call_z_alignment_distance(<<qx, qy, qz, qw>>)
    IN  IF Returned(d) THEN Return(RLe(d.value, threshold)) ELSE d

\* line 224: threshold=1e-1
DefaultThreshold == Rat(1, 10)

\* a Python call of is_pointing_downwards with the positional arguments args:
\* four are required, the fifth defaults
Call_is_pointing_downwards(args) ==
    IF Len(args) < 4 \/ Len(args) > 5 THEN Raise(TypeError)
    ELSE is_pointing_downwards(args[1], args[2], args[3], args[4],
                               IF Len(args) = 5 THEN args[5] ELSE DefaultThreshold)

\* the inputs of the model
MaxTurns == 2
Angles == -MaxTurns..MaxTurns
PointingThresholds == {Zero, DefaultThreshold, Rat(1, 2), One}

\* a caller about to call z_alignment_distance(roll, pitch, yaw), or
\* is_pointing_downwards(roll, pitch, yaw[, threshold]) as documented
InitAlign ==
    /\ cam = NoCamera
    /\ heap = EmptyHeap
    /\ \/ call \in [op : {"z_alignment_distance"}, args : Angles \X Angles \X Angles]
       \/ call \in [op : {"is_pointing_downwards"},
                    args : (Angles \X Angles \X Angles)
                           \cup (Angles \X Angles \X Angles \X PointingThresholds)]
    /\ res = Pending

ZAlignmentDistance ==
    /\ call.op = "z_alignment_distance"
    /\ res = Pending
    /\ res' = Call_z_alignment_distance(call.args)
    /\ UNCHANGED <<cam, heap, call>>

IsPointingDownwards ==
    /\ call.op = "is_pointing_downwards"
    /\ res = Pending
    /\ res' = Call_is_pointing_downwards(call.args)
    /\ UNCHANGED <<cam, heap, call>>

NextAlign == ZAlignmentDistance \/ IsPointingDownwards

SpecAlign == InitAlign /\ [][NextAlign]_vars

AlignDone == call.op = "z_alignment_distance" /\ res # Pending
PointingDone == call.op = "is_pointing_downwards" /\ res # Pending

\* C2: is_pointing_downwards(roll, pitch, yaw, threshold) completes without
\* raising and returns a boolean, True if and only if
\* z_alignment_distance(roll, pitch, yaw) <= threshold (default 0.1)
C2_PointingIffWithinThreshold ==
    PointingDone =>
        LET threshold == IF Len(call.args) = 4 THEN call.args[4] ELSE DefaultThreshold
            d == z_alignment_distance(call.args[1], call.args[2], call.args[3])
        IN  /\ Returned(res)
            /\ res.value \in BOOLEAN
            /\ res.value = RLe(d, threshold)

\* C8: z_alignment_distance returns a value in [0, 1]; it is 0 at (0, 0, 0)
\* and 1 at (pi, 0, 0); it is the angle over pi whose cosine is
\* cos(roll) * cos(pitch), the z component of Rz(yaw) Ry(pitch) Rx(roll)
\* applied to (0, 0, -1), against (0, 0, -1)
C8_AlignmentRange ==
    AlignDone =>
        LET roll == call.args[1]
            pitch == call.args[2]
            yaw == call.args[3]
        IN  /\ Returned(res)
            /\ RLe(Zero, res.value) /\ RLe(res.value, One)
            /\ (roll = 0 /\ pitch = 0 /\ yaw = 0) => res.value = Zero
            /\ (roll = 2 /\ pitch = 0 /\ yaw = 0) => res.value = One
            /\ res.value = ArccosOverPi(Int2Rat(Cos(roll) * Cos(pitch)))

C8_Witness ==
    /\ AlignDone /\ Returned(res)
    /\ call.args = <<2, 0, 0>>
    /\ res.value = One

(***************************************************************************)
(* Camera (utilities.py 63-109).                                           *)
(***************************************************************************)
Sgn(n) == IF n > 0 THEN 1 ELSE IF n < 0 THEN -1 ELSE 0

\* IEEE numbers that are not finite: <<1, 0>> and <<-1, 0>> are the
\* infinities, <<0, 0>> is NaN
NaN == <<0, 0>>
IsFinite(r) == r[2] # 0
\* division of C floats and of numpy arrays: a zero divisor does not raise
NpDiv(a, b) ==
    IF ~IsFinite(a) \/ ~IsFinite(b) THEN NaN
    ELSE IF b[1] = 0 THEN <<Sgn(a[1]), 0>>
    ELSE RDiv(a, b)

Dot3R(u, v) == RAdd(RAdd(RMul(u[1], v[1]), RMul(u[2], v[2])), RMul(u[3], v[3]))
Cross3R(u, v) ==
    << RSub(RMul(u[2], v[3]), RMul(u[3], v[2])),
       RSub(RMul(u[3], v[1]), RMul(u[1], v[3])),
       RSub(RMul(u[1], v[2]), RMul(u[2], v[1])) >>
\* v / |v| for a vector of integer squared length that is a perfect square
Normalized3R(v) ==
    LET len == Sqrt(Dot3R(v, v)[1]).c
    IN  [i \in 1..3 |-> NpDiv(v[i], len)]
Finite3(v) == \A i \in 1..3 : IsFinite(v[i])

\* p.computeViewMatrix of pybullet (line 70): the look-at matrix, as the
\* column-major tuple of its 16 entries; a zero-length axis gives NaN
computeViewMatrix(cam_pos, cam_tar, cam_up_vector) ==
    LET eye == [i \in 1..3 |-> Int2Rat(cam_pos[i])]
        f == Normalized3R([i \in 1..3 |-> Int2Rat(cam_tar[i] - cam_pos[i])])
        u0 == Normalized3R([i \in 1..3 |-> Int2Rat(cam_up_vector[i])])
        s == Normalized3R(Cross3R(f, u0))
    IN  IF ~Finite3(f) \/ ~Finite3(u0) \/ ~Finite3(s) THEN [k \in 1..16 |-> NaN]
        ELSE LET u == Cross3R(s, f)
             IN  << s[1], u[1], RNeg(f[1]), Zero,
                    s[2], u[2], RNeg(f[2]), Zero,
                    s[3], u[3], RNeg(f[3]), Zero,
                    RNeg(Dot3R(s, eye)), RNeg(Dot3R(u, eye)), Dot3R(f, eye), One >>

\* 1 / tan(fov / 2) for the field of view of the model, 90 degrees
CotHalf(fov) == One

\* p.computeProjectionMatrixFOV of pybullet (line 71), column-major
computeProjectionMatrixFOV(fov, aspect, near, far) ==
    LET yScale == CotHalf(fov)
        xScale == NpDiv(yScale, aspect)
        n == Int2Rat(near)
        f == Int2Rat(far)
    IN  << xScale, Zero, Zero, Zero,
           Zero, yScale, Zero, Zero,
           Zero, Zero, NpDiv(RAdd(n, f), RSub(n, f)), Int2Rat(-1),
           Zero, Zero, NpDiv(RMul(Int2Rat(2), RMul(f, n)), RSub(n, f)), Zero >>

\* a 4x4 matrix is the tuple of its rows
\* np.array(t).reshape((4, 4), order='F') (lines 73-74): column-major
ReshapeF(t) == [i \in 1..4 |-> [j \in 1..4 |-> t[(j - 1) * 4 + i]]]

FiniteMat(m) == \A i \in 1..4 : \A j \in 1..4 : IsFinite(m[i][j])
NaNMat == [i \in 1..4 |-> [j \in 1..4 |-> NaN]]
NaNVec == [i \in 1..4 |-> NaN]

RSum4(a, b, c, d) == RAdd(RAdd(a, b), RAdd(c, d))
\* a @ b; a non-finite entry makes the product non-finite
MatMul4(a, b) ==
    IF ~FiniteMat(a) \/ ~FiniteMat(b) THEN NaNMat
    ELSE [i \in 1..4 |-> [j \in 1..4 |->
             RSum4(RMul(a[i][1], b[1][j]), RMul(a[i][2], b[2][j]),
                   RMul(a[i][3], b[3][j]), RMul(a[i][4], b[4][j]))]]
\* a @ v
MatVec4(a, v) ==
    IF ~FiniteMat(a) \/ \E i \in 1..4 : ~IsFinite(v[i]) THEN NaNVec
    ELSE [i \in 1..4 |->
             RSum4(RMul(a[i][1], v[1]), RMul(a[i][2], v[2]),
                   RMul(a[i][3], v[3]), RMul(a[i][4], v[4]))]
Identity4 == [i \in 1..4 |-> [j \in 1..4 |-> IF i = j THEN One ELSE Zero]]

\* the three indices of 1..4 other than i, in order
Skip(i) == IF i = 1 THEN <<2, 3, 4>> ELSE IF i = 2 THEN <<1, 3, 4>>
           ELSE IF i = 3 THEN <<1, 2, 4>> ELSE <<1, 2, 3>>
Det3(m, r, c) ==
    LET e(i, j) == m[r[i]][c[j]]
        pos == RAdd(RAdd(RMul(e(1, 1), RMul(e(2, 2), e(3, 3))),
                         RMul(e(1, 2), RMul(e(2, 3), e(3, 1)))),
                    RMul(e(1, 3), RMul(e(2, 1), e(3, 2))))
        neg == RAdd(RAdd(RMul(e(1, 3), RMul(e(2, 2), e(3, 1))),
                         RMul(e(1, 2), RMul(e(2, 1), e(3, 3)))),
                    RMul(e(1, 1), RMul(e(2, 3), e(3, 2))))
    IN  RSub(pos, neg)
Cofactor(m, i, j) ==
    LET d == Det3(m, Skip(i), Skip(j))
    IN  IF (i + j) % 2 = 0 THEN d ELSE RNeg(d)
Det4(m) ==
    RSum4(RMul(m[1][1], Cofactor(m, 1, 1)), RMul(m[1][2], Cofactor(m, 1, 2)),
          RMul(m[1][3], Cofactor(m, 1, 3)), RMul(m[1][4], Cofactor(m, 1, 4)))

\* np.linalg.inv without the singularity check: the adjugate over the
\* determinant, whatever the determinant
InvUnchecked(m) ==
    IF ~FiniteMat(m) THEN {Return(NaNMat)}
    ELSE LET det == Det4(m)
         IN  {Return([i \in 1..4 |-> [j \in 1..4 |-> NpDiv(Cofactor(m, j, i), det)]])}
\* np.linalg.inv (line 75), as the set of its possible outcomes: it raises
\* LinAlgError on a singular matrix; on a matrix with non-finite entries
\* LAPACK may report a singular matrix or return without an error
Inv(m) ==
    IF ~FiniteMat(m) THEN {Raise(LinAlgError), Return(NaNMat)}
    ELSE LET det == Det4(m)
         IN  IF det = Zero THEN {Raise(LinAlgError)}
             ELSE {Return([i \in 1..4 |-> [j \in 1..4 |-> RDiv(Cofactor(m, j, i), det)]])}

\* Camera.__init__ (lines 64-75), as the set of its outcomes: the instance
\* (NoCamera when the constructor raised) and the buffer of tran_pix_world
Camera_init(cam_pos, cam_tar, cam_up_vector, near, far, size, fov) ==
    LET width == size[1]
        height == size[2]
        aspect == Rat(width, height)
        view_matrix == computeViewMatrix(cam_pos, cam_tar, cam_up_vector)
        projection_matrix == computeProjectionMatrixFOV(fov, aspect, near, far)
        _view_matrix == ReshapeF(view_matrix)
        _projection_matrix == ReshapeF(projection_matrix)
    IN  { IF Returned(o)
          THEN [res |-> Return(None),
                cam |-> [constructed |-> TRUE, width |-> width, height |-> height,
                         near |-> near, far |-> far, fov |-> fov,
                         view_matrix |-> view_matrix,
                         projection_matrix |-> projection_matrix,
                         tran_pix_world |-> "tran_pix_world"],
                tran_pix_world |-> o.value]
          ELSE [res |-> o, cam |-> NoCamera, tran_pix_world |-> NoBuffer]
          : o \in Inv(MatMul4(_projection_matrix, _view_matrix)) }

\* position /= position[3] and the batched form: every entry over the fourth
PerspectiveDivide(position) == [i \in 1..4 |-> NpDiv(position[i], position[4])]
\* position[:3]
Take3(position) == <<position[1], position[2], position[3]>>

\* Camera.rgbd_2_world (lines 77-85) on the heap hp: the heap it leaves and
\* what it returns
rgbd_2_world(hp, self, w, h, d) ==
    LET x == RDiv(Int2Rat(2 * w - self.width), Int2Rat(self.width))
        y == RNeg(RDiv(Int2Rat(2 * h - self.height), Int2Rat(self.height)))
        z == RSub(RMul(Int2Rat(2), d), One)
        pix_pos == <<x, y, z, One>>
        h1 == [hp EXCEPT !["position"] = MatVec4(hp[self.tran_pix_world], pix_pos)]
        h2 == [h1 EXCEPT !["position"] = PerspectiveDivide(h1["position"])]
    IN  [heap |-> h2, res |-> Return(Take3(h2["position"]))]

\* x.flatten(): the rows of a matrix one after the other
Flatten(m) ==
    LET cols == Len(m[1])
    IN  [k \in 1..(Len(m) * cols) |-> m[((k - 1) \div cols) + 1][((k - 1) % cols) + 1]]

\* line 100 done in place: depth *= 2; depth -= 1
DepthToNdcInPlace(hp) ==
    LET ndc == [i \in 1..Len(hp["depth"]) |-> [j \in 1..Len(hp["depth"][i]) |->
                   RSub(RMul(Int2Rat(2), hp["depth"][i][j]), One)]]
    IN  [hp EXCEPT !["depth"] = ndc, !["z"] = ndc]
\* line 100: z = 2 * depth - 1, a new array
DepthToNdc(hp) ==
    [hp EXCEPT !["z"] = [i \in 1..Len(hp["depth"]) |-> [j \in 1..Len(hp["depth"][i]) |->
                            RSub(RMul(Int2Rat(2), hp["depth"][i][j]), One)]]]

\* the row of entry [h, w] in the column-major order
ColMajorIndex(h, w, width, height) == (w - 1) * height + h
\* line 109: reshape(height, width, -1) puts row (h - 1) * width + w at [h, w]
RowMajorIndex(h, w, width, height) == (h - 1) * width + w

\* Camera.rgbd_2_world_batch (lines 94-109) on the depth image in hp["depth"]
rgbd_2_world_batch(hp, self) ==
    LET width == self.width
        height == self.height
        x0 == [j \in 1..width |-> RDiv(Int2Rat(2 * (j - 1) - width), Int2Rat(width))]
        x == [i \in 1..height |-> x0]
        y0 == [i \in 1..height |->
                  RNeg(RDiv(Int2Rat(2 * (i - 1) - height), Int2Rat(height)))]
        y == [i \in 1..height |-> [j \in 1..width |-> y0[i]]]
        h1 == DepthToNdc(hp)
        xf == Flatten(x)
        yf == Flatten(y)
        zf == Flatten(h1["z"])
        pix_pos == [k \in 1..Len(xf) |-> <<xf[k], yf[k], zf[k], One>>]
        h2 == [h1 EXCEPT !["position"] =
                  [k \in 1..Len(xf) |-> MatVec4(h1[self.tran_pix_world], pix_pos[k])]]
        h3 == [h2 EXCEPT !["position"] =
                  [k \in 1..Len(xf) |-> PerspectiveDivide(h2["position"][k])]]
    IN  [heap |-> [h3 EXCEPT !["z"] = NoBuffer],
         res |-> Return([i \in 1..height |-> [j \in 1..width |->
                            Take3(h3["position"][RowMajorIndex(i, j, width, height)])]])]

\* the inputs of the model: images of at most MaxPixels pixels
MaxPixels == 6
Sizes == {s \in (1..MaxPixels) \X (1..MaxPixels) : s[1] * s[2] <= MaxPixels}
\* depth-buffer values: the near plane, halfway, the far plane
DepthValues == {Zero, Rat(1, 2), One}
\* what the simulator renders: a background at the far plane and at most one
\* pixel of an object in front of it
DepthImages(size) ==
    { [i \in 1..size[2] |-> [j \in 1..size[1] |->
          IF <<i, j>> = lit[1] THEN lit[2] ELSE One]]
      : lit \in ((1..size[2]) \X (1..size[1])) \X DepthValues }
\* constructor arguments: a camera in front of the origin and one beside it,
\* both with near = 1 and far = 3; then near = 0; near == far; and an up
\* vector along the view direction
Configs ==
    { [cam_pos |-> <<0, 0, 2>>, cam_up_vector |-> <<0, 1, 0>>, near |-> 1, far |-> 3],
      [cam_pos |-> <<1, 0, 0>>, cam_up_vector |-> <<0, 0, 1>>, near |-> 1, far |-> 3],
      [cam_pos |-> <<0, 0, 2>>, cam_up_vector |-> <<0, 1, 0>>, near |-> 0, far |-> 2],
      [cam_pos |-> <<0, 0, 2>>, cam_up_vector |-> <<0, 1, 0>>, near |-> 2, far |-> 2],
      [cam_pos |-> <<0, 0, 2>>, cam_up_vector |-> <<0, 0, 1>>, near |-> 1, far |-> 3] }

NoCall == [op |-> "none", args |-> <<>>]

InitCamera ==
    /\ cam = NoCamera
    /\ heap = EmptyHeap
    /\ call = NoCall
    /\ res = Pending

\* Camera(cam_pos, (0, 0, 0), cam_up_vector, near, far, size, 90), the first
\* call of the program
Construct ==
    /\ cam = NoCamera
    /\ call = NoCall
    /\ \E c \in Configs, size \in Sizes :
           \E o \in Camera_init(c.cam_pos, <<0, 0, 0>>, c.cam_up_vector,
                                c.near, c.far, size, 90) :
               /\ call' = [op |-> "Camera", args |-> <<c, size>>]
               /\ res' = o.res
               /\ cam' = o.cam
               /\ heap' = [heap EXCEPT !["tran_pix_world"] = o.tran_pix_world]

\* Camera.shot (lines 87-92): the simulator renders some depth image of the
\* camera's size, which the caller keeps in place of the previous one; the
\* result of the previous call is released
Shot ==
    /\ cam # NoCamera
    /\ \E depth \in DepthImages(<<cam.width, cam.height>>) :
           /\ call' = [op |-> "shot", args |-> <<>>]
           /\ res' = Return(depth)
           /\ heap' = [heap EXCEPT !["depth"] = depth, !["position"] = NoBuffer]
    /\ UNCHANGED cam

Rgbd2World ==
    /\ cam # NoCamera
    /\ \E w \in 0..(cam.width - 1), h \in 0..(cam.height - 1), d \in DepthValues :
           LET o == rgbd_2_world(heap, cam, w, h, d)
           IN  /\ call' = [op |-> "rgbd_2_world", args |-> <<w, h, d>>]
               /\ res' = o.res
               /\ heap' = o.heap
    /\ UNCHANGED cam

Rgbd2WorldBatch ==
    /\ cam # NoCamera
    /\ heap["depth"] # NoBuffer
    /\ LET o == rgbd_2_world_batch(heap, cam)
       IN  /\ call' = [op |-> "rgbd_2_world_batch", args |-> <<heap["depth"]>>]
           /\ res' = o.res
           /\ heap' = o.heap
    /\ UNCHANGED cam

NextCamera == Construct \/ Shot \/ Rgbd2World \/ Rgbd2WorldBatch

SpecCamera == InitCamera /\ [][NextCamera]_vars

Constructed == cam # NoCamera
BatchDone == call.op = "rgbd_2_world_batch" /\ Returned(res)

\* C1: rgbd_2_world_batch returns an array of shape height x width x 3 whose
\* entry [h, w] equals rgbd_2_world(w, h, depth[h, w]) for every pixel
C1_BatchEqualsPoint ==
    BatchDone =>
        /\ Len(res.value) = cam.height
        /\ \A i \in 1..cam.height :
               /\ Len(res.value[i]) = cam.width
               /\ \A j \in 1..cam.width :
                      /\ Len(res.value[i][j]) = 3
                      /\ res.value[i][j] =
                             rgbd_2_world(heap, cam, j - 1, i - 1,
                                          heap["depth"][i][j]).res.value

\* a 3 x 2 image whose last pixel is at the near plane, seen by a camera with
\* a finite inverse matrix: the pixels unproject to different points
C1_Witness ==
    /\ BatchDone
    /\ cam.width = 3 /\ cam.height = 2
    /\ FiniteMat(heap["tran_pix_world"])
    /\ heap["depth"][2][3] = Zero
    /\ res.value[2][3] # res.value[1][2]
    /\ res.value[2][3] # res.value[2][1]
    /\ \A k \in 1..3 : IsFinite(res.value[2][3][k])

\* projection_matrix @ view_matrix of the constructor call in call.args
Combined ==
    LET c == call.args[1]
        size == call.args[2]
    IN  MatMul4(ReshapeF(computeProjectionMatrixFOV(90, Rat(size[1], size[2]),
                                                    c.near, c.far)),
                ReshapeF(computeViewMatrix(c.cam_pos, <<0, 0, 0>>, c.cam_up_vector)))
Invertible(m) == FiniteMat(m) /\ Det4(m) # Zero

SameAgain ==
    /\ call.op = "rgbd_2_world" =>
           rgbd_2_world(heap, cam, call.args[1], call.args[2], call.args[3]).res = res
    /\ call.op = "rgbd_2_world_batch" =>
           (heap["depth"] = call.args[1] /\ rgbd_2_world_batch(heap, cam).res = res)

\* C10: once the camera is constructed, rgbd_2_world, rgbd_2_world_batch and
\* shot leave every field of it and the matrix tran_pix_world as the
\* constructor set them, the two unprojections leave the caller's depth image
\* as it is, and a repeated call returns the same result
C10_CameraUnchanged ==
    /\ [][Constructed =>
             /\ cam' = cam
             /\ heap'["tran_pix_world"] = heap["tran_pix_world"]
             /\ call'.op # "shot" => heap'["depth"] = heap["depth"]]_vars
    /\ [](Constructed => SameAgain)

C10_Witness ==
    /\ BatchDone
    /\ FiniteMat(heap["tran_pix_world"])
    /\ heap["depth"] = call.args[1]
    /\ \E i \in 1..cam.height : \E j \in 1..cam.width : heap["depth"][i][j] = Zero
    /\ cam.width = 2 /\ cam.height = 2

====
